---- MODULE Spec2Model ----
(***************************************************************************)
(* Model of the Barotrauma reactor simulator: the reactor dynamics         *)
(* (src/src/reactor.rs), the controller composition                        *)
(* (src/src/controller.rs) and the fixed-timestep simulation driver with   *)
(* its example controllers (src/src/main.rs).                              *)
(*                                                                         *)
(* Numbers.  The program computes in f32 (IEEE 754 binary32, round to       *)
(* nearest, ties to even).  Here an f32 is the integer its bits encode     *)
(* when read as sign and magnitude: 0 for 0.0, (E * 2^23 + F) for the      *)
(* positive value with exponent field E and fraction field F, and the      *)
(* negated integer for the negative value.  Integer order is then the      *)
(* order of the f32 values, so comparisons, min, max, clamp and abs are    *)
(* the integer ones, and F32Add, F32Sub, F32Mul and F32Quot compute the    *)
(* correctly rounded f32 result, subnormals included, as the hardware      *)
(* does.  +0.0 and -0.0 are one value: the reactor's arithmetic never      *)
(* produces -0.0 from the non-negative fields it keeps.  NaN and infinite  *)
(* operands are outside the model; the one division by zero the program    *)
(* performs is classified by F32Div.                                       *)
(***************************************************************************)
EXTENDS Integers, Sequences, FiniteSets

VARIABLES
    reactor,      \* the Reactor struct: input, output, core, turbine, ...
    controller,   \* Simulation.controller (a controller tree)
    ticks,        \* Simulation.ticks
    tick,         \* the loop counter of Simulation::run
    pc,           \* "api", "setup", "scenario", "hold", "sweep", or where run
                  \* is: "controls", "update", "done"
    updates,      \* observation: number of Reactor::update calls so far
    ctrlUpdates,  \* observation: number of Controller::update calls by run
    lastUpdate,   \* observation: the last Reactor::update call
    lastSet,      \* observation: the last setter call and its argument
    lastControls, \* observation: what the last Controller::update started from
    start,        \* observation: the arguments of Simulation::new
    sims          \* the Simulations of main's parallel sweep, by fuel potential

vars == <<reactor, controller, ticks, tick, pc, updates, ctrlUpdates,
          lastUpdate, lastSet, lastControls, start, sims>>

----------------------------------------------------------------------------
(* f32 arithmetic on the bits of the operands *)

\* the element of a one-element set: Only({e(v) : v \in {x}}) is e(x) with x
\* evaluated once, as a let binding of the program is
Only(S) == CHOOSE z \in S : TRUE

Abs(x) == IF x >= 0 THEN x ELSE -x

Sign(x) == IF x < 0 THEN -1 ELSE 1

BitLen2(m) == IF m >= 2 THEN 2 ELSE m

BitLen4(m) == IF m >= 4 THEN 2 + BitLen2(m \div 4) ELSE BitLen2(m)

BitLen8(m) == IF m >= 16 THEN 4 + BitLen4(m \div 16) ELSE BitLen4(m)

BitLen16(m) == IF m >= 256 THEN 8 + BitLen8(m \div 256) ELSE BitLen8(m)

\* the number of bits of m, 0 <= m < 2^31
BitLen(m) == IF m >= 65536 THEN 16 + BitLen16(m \div 65536) ELSE BitLen16(m)

\* significand and exponent of the finite f32 with bits x: |x| = Mant * 2^Expo
Mant(x) == IF Abs(x) < 2 ^ 23 THEN Abs(x) ELSE 2 ^ 23 + (Abs(x) % 2 ^ 23)

Expo(x) == IF Abs(x) < 2 ^ 23 THEN -149 ELSE (Abs(x) \div 2 ^ 23) - 150

\* the bits of m * 2^e, for m < 2^24 with e = -149, or 2^23 <= m <= 2^24
Pack(m, e) == (e + 149) * 2 ^ 23 + m

\* 1 when the bits r cut off below a significand round it up: they are more
\* than half a unit, or half a unit with something below it or an odd
\* significand above it
RoundUp(r, half, odd) == IF r > half \/ (r = half /\ odd) THEN 1 ELSE 0

\* the bits of the f32 nearest (m + f) * 2^e when bit k of m is the last bit
\* of the significand kept
RoundAt(m, e, k, sticky) ==
    IF k <= 0 THEN Pack(m * 2 ^ (-k), e + k)
    ELSE IF k > 30 THEN 0
    ELSE Pack((m \div 2 ^ k)
                  + RoundUp(m % 2 ^ k, 2 ^ (k - 1),
                            sticky \/ ((m \div 2 ^ k) % 2) = 1),
              e + k)

\* the last bit kept of a significand of len bits: 24 bits are kept, fewer
\* below the smallest exponent
LastBit(len, e) == IF len - 24 > -149 - e THEN len - 24 ELSE -149 - e

\* the bits of the f32 nearest (m + f) * 2^e, ties to even, where 0 <= m < 2^31
\* and f is 0, or some fraction in (0, 1) when sticky
RoundPackBits(m, e, sticky) ==
    IF m = 0 THEN 0 ELSE RoundAt(m, e, LastBit(BitLen(m), e), sticky)

\* RoundPackBits with its operands evaluated once
RoundPack(m, e, sticky) ==
    Only({RoundPackBits(a, b, sticky) : a \in {m}, b \in {e}})

\* the f32 of the literal n.0 for a whole n with |n| < 2^24, which f32 holds
\* exactly
FxBits(m, len) == Pack(m * 2 ^ (24 - len), len - 24)

Fx(n) == IF n = 0 THEN 0 ELSE Sign(n) * FxBits(Abs(n), BitLen(Abs(n)))

\* the operand of the larger and of the smaller magnitude
Larger(x, y) == IF Abs(x) < Abs(y) THEN y ELSE x

Smaller(x, y) == IF Abs(x) < Abs(y) THEN x ELSE y

\* the guard bits kept under the larger significand
Guard(d) == IF d > 6 THEN 6 ELSE d

\* the significand ma plus or minus mb, below which bits were lost or not
AddMant(ma, mb, lost, same, e) ==
    RoundPack(IF same THEN ma + mb ELSE ma - mb - (IF lost THEN 1 ELSE 0),
              e, lost)

\* a + b for |a| >= |b|: the significand of a over up guard bits, that of b
\* moved down sh bits under them
AddAligned(a, b, up, sh) ==
    AddMant(Mant(a) * 2 ^ up,
            IF sh >= 24 THEN 0 ELSE Mant(b) \div 2 ^ sh,
            IF sh >= 24 THEN Mant(b) # 0 ELSE (Mant(b) % 2 ^ sh) # 0,
            (a < 0) = (b < 0),
            Expo(a) - up)

\* a + b for |a| >= |b| with exponents d apart
AddOrdered(a, b, d) == Sign(a) * AddAligned(a, b, Guard(d), d - Guard(d))

\* x + y for the f32 bits x and y: the smaller operand is aligned under six
\* guard bits of the larger and what falls off is kept as the sticky bit
AddBits(x, y) ==
    AddOrdered(Larger(x, y), Smaller(x, y),
               Expo(Larger(x, y)) - Expo(Smaller(x, y)))

\* x + y in f32, the operands evaluated once
F32Add(x, y) == Only({AddBits(a, b) : a \in {x}, b \in {y}})

\* x - y in f32
F32Sub(x, y) == F32Add(x, -y)

\* the top 30 bits of the 48-bit product high * 2^24 + low, rounded
MulWide(high, low, e) ==
    RoundPack((high + (low \div 2 ^ 24)) * 2 ^ 6 + ((low % 2 ^ 24) \div 2 ^ 18),
              e + 18, (low % 2 ^ 18) # 0)

\* the product from the products of the 12-bit halves
MulSum(hh, mid, ll, e) ==
    MulWide(hh + (mid \div 2 ^ 12), (mid % 2 ^ 12) * 2 ^ 12 + ll, e)

MulHalves(a1, a0, b1, b0, e) ==
    MulSum(a1 * b1, a1 * b0 + a0 * b1, a0 * b0, e)

\* the product of two 24-bit significands
MulMant(ma, mb, e) ==
    MulHalves(ma \div 2 ^ 12, ma % 2 ^ 12, mb \div 2 ^ 12, mb % 2 ^ 12, e)

\* the product of significands of la and lb bits, each shifted up to 24 bits
MulNorm(ma, la, mb, lb, e) ==
    Only({MulMant(a, b, e - (24 - la) - (24 - lb)) :
                      a \in {ma * 2 ^ (24 - la)}, b \in {mb * 2 ^ (24 - lb)}})

\* x * y for the f32 bits x and y
MulBits(x, y) ==
    IF x = 0 \/ y = 0 THEN 0
    ELSE Sign(x) * Sign(y)
             * MulNorm(Mant(x), BitLen(Mant(x)), Mant(y), BitLen(Mant(y)),
                       Expo(x) + Expo(y))

\* x * y in f32, the operands evaluated once
F32Mul(x, y) == Only({MulBits(a, b) : a \in {x}, b \in {y}})

RECURSIVE LongDiv(_, _, _, _)
\* n more steps of the long division by d, seven bits a step, from the
\* quotient q and the remainder r
LongDiv(q, r, d, n) ==
    IF n = 0 THEN <<q, r>>
    ELSE LongDiv(q * 2 ^ 7 + ((r * 2 ^ 7) \div d), (r * 2 ^ 7) % d, d, n - 1)

\* the quotient rounded, a remainder left over being the sticky bit
QuotRound(qr, e) == RoundPack(qr[1], e, qr[2] # 0)

\* the quotient of two 24-bit significands to 29 bits
QuotMant(ma, mb, e) ==
    Only({QuotRound(qr, e - 28) :
                      qr \in {LongDiv(ma \div mb, ma % mb, mb, 4)}})

\* the quotient of significands of la and lb bits, each shifted up to 24 bits
QuotNorm(ma, la, mb, lb, e) ==
    Only({QuotMant(a, b, e - (24 - la) + (24 - lb)) :
                      a \in {ma * 2 ^ (24 - la)}, b \in {mb * 2 ^ (24 - lb)}})

\* x / y for the f32 bits x and y # 0
QuotBits(x, y) ==
    IF x = 0 THEN 0
    ELSE Sign(x) * Sign(y)
             * QuotNorm(Mant(x), BitLen(Mant(x)), Mant(y), BitLen(Mant(y)),
                        Expo(x) - Expo(y))

\* x / y in f32 for a divisor that is not zero
F32Quot(x, y) == Only({QuotBits(a, b) : a \in {x}, b \in {y}})

\* f32::min / f32::max / f32::clamp / f32::signum on non-NaN operands
F32Min(a, b) == IF a <= b THEN a ELSE b

F32Max(a, b) == IF a >= b THEN a ELSE b

F32Clamp(x, lo, hi) == IF x < lo THEN lo ELSE IF x > hi THEN hi ELSE x

\* signum(+0.0) = 1.0; a computed difference of equal finite values is +0.0
F32Signum(x) == (IF x >= 0 THEN 1 ELSE -1) * Fx(1)

\* the time delta the caller writes as n.0 / d.0 (1.0 / 60.0 in run): v is
\* the f32 passed to update, n and d are kept for the bounds stated in 5*dt
Dt(n, d) == [n |-> n, d |-> d, v |-> F32Quot(Fx(n), Fx(d))]

\* x * time_delta
MulDt(x, dt) == F32Mul(x, dt.v)

----------------------------------------------------------------------------
(* reactor.rs: Input *)

Input_new == [fission_rate |-> 0, turbine_rate |-> 0, load |-> 0]

Input_set_fission_rate(in, x) ==
    [in EXCEPT !.fission_rate = F32Clamp(x, Fx(0), Fx(100))]

Input_set_turbine_rate(in, x) ==
    [in EXCEPT !.turbine_rate = F32Clamp(x, Fx(0), Fx(100))]

\* set_load that only guards against negative values
Input_set_load_floor_only(in, x) == [in EXCEPT !.load = F32Max(x, Fx(0))]

Input_set_load(in, x) ==
    [in EXCEPT !.load = F32Clamp(x, Fx(0), Fx(100))]

(* reactor.rs: Output *)

Output_new ==
    [temperature |-> 0, load |-> 0, power |-> 0, fuel_potential |-> 0,
     fission_rate |-> 0, turbine_rate |-> 0]

(* reactor.rs: Core and Turbine *)

Core_new == [value |-> 0, target |-> 0]

Turbine_new == [value |-> 0, target |-> 0]

\* the ramp without the cap at new_target
RampTarget_uncapped(target, new_target, dt) ==
    IF target >= new_target
    THEN F32Sub(target, MulDt(Fx(5), dt))
    ELSE F32Add(target, MulDt(Fx(5), dt))

\* the target taken over at once, with no rate limit
RampTarget_jump(target, new_target, dt) == new_target

\* the rate-limited target of lines 167-171 and 193-197
RampTarget(target, new_target, dt) ==
    IF target >= new_target
    THEN F32Max(F32Sub(target, MulDt(Fx(5), dt)), new_target)
    ELSE F32Min(F32Add(target, MulDt(Fx(5), dt)), new_target)

\* Core::update with a heat potential of 32 instead of 320
Core_update_low_ceiling(c, new_target, dt) ==
    Only({[value |-> F32Clamp(F32Add(c.value,
                                     MulDt(F32Sub(F32Min(target, Fx(32)),
                                                  c.value), dt)),
                              Fx(0), Fx(100)),
           target |-> target] :
              target \in {RampTarget(c.target, new_target, dt)}})

\* Core::update with value following the capped target at once, with no lag
Core_update_no_lag(c, new_target, dt) ==
    Only({[value |-> F32Clamp(F32Min(target, Fx(320)), Fx(0), Fx(100)),
           target |-> target] :
              target \in {RampTarget(c.target, new_target, dt)}})

\* Core::update without the final clamp of value
Core_update_unclamped(c, new_target, dt) ==
    Only({[value |-> F32Add(c.value,
                            MulDt(F32Sub(F32Min(target, Fx(320)), c.value), dt)),
           target |-> target] :
              target \in {RampTarget(c.target, new_target, dt)}})

\* target is the ramped self.target; 320 is heat_potential
Core_update(c, new_target, dt) ==
    Only({[value |-> F32Clamp(F32Add(c.value,
                                     MulDt(F32Sub(F32Min(target, Fx(320)),
                                                  c.value), dt)),
                              Fx(0), Fx(100)),
           target |-> target] :
              target \in {RampTarget(c.target, new_target, dt)}})

Turbine_update(t, new_target, dt) ==
    Only({[value |-> F32Clamp(F32Add(t.value,
                                     MulDt(F32Sub(target, t.value), dt)),
                              Fx(0), Fx(100)),
           target |-> target] :
              target \in {RampTarget(t.target, new_target, dt)}})

(* reactor.rs: Reactor *)

Reactor_new(fuel_potential, power_max) ==
    [input |-> Input_new,
     core |-> Core_new,
     turbine |-> Turbine_new,
     power_max |-> power_max,
     fuel_potential |-> fuel_potential,
     load |-> 0,
     temperature |-> 0,
     output |-> Output_new]

Reactor_heat_demand(r) == F32Mul(r.turbine.value, Fx(75))

\* heat_supply without the factor 2
Reactor_heat_supply_single(r) == F32Mul(r.core.value, r.fuel_potential)

Reactor_heat_supply(r) ==
    F32Mul(F32Mul(Fx(2), r.core.value), r.fuel_potential)

Reactor_get_fission_rate(r) == r.core.value

Reactor_get_turbine_rate(r) == r.turbine.value

Reactor_get_power(r) ==
    F32Quot(F32Mul(r.turbine.value, r.power_max), Fx(100))

\* the gap taken against heat_demand() instead of turbine.value * 100
TemperaturDelta_heat_demand(r) ==
    F32Sub(F32Sub(Reactor_heat_supply(r), Reactor_heat_demand(r)), r.temperature)

\* temperatur_delta of line 223
TemperaturDelta(r) ==
    F32Sub(F32Sub(Reactor_heat_supply(r), F32Mul(r.turbine.value, Fx(100))),
           r.temperature)

\* the rate-limited step added without being capped by the gap
TemperaturAdded_uncapped(r, dt) ==
    F32Add(r.temperature,
           MulDt(F32Mul(F32Signum(TemperaturDelta(r)), Fx(1000)), dt))

\* self.temperature after line 225, before the clamp of line 226
TemperaturAdded(r, dt) ==
    Only({F32Add(r.temperature,
                 F32Clamp(MulDt(F32Mul(F32Signum(temperatur_delta), Fx(1000)),
                                dt),
                          -Abs(temperatur_delta), Abs(temperatur_delta))) :
              temperatur_delta \in {TemperaturDelta(r)}})

\* update_temperatur without the clamp of line 226
Reactor_update_temperatur_unclamped(r, dt) ==
    Only({[r EXCEPT !.temperature = temperature,
                    !.output.temperature = temperature] :
              temperature \in {TemperaturAdded(r, dt)}})

Reactor_update_temperatur(r, dt) ==
    Only({[r EXCEPT !.temperature = temperature,
                    !.output.temperature = temperature] :
              temperature \in {F32Clamp(TemperaturAdded(r, dt),
                                        Fx(0), Fx(10000))}})

\* Reactor::update with the temperature step after Core and Turbine
Reactor_update_temperatur_last(r, dt) ==
    Only({[r3 EXCEPT !.output.fuel_potential = r3.fuel_potential,
                     !.output.fission_rate = Reactor_get_fission_rate(r3),
                     !.output.load = r3.input.load,
                     !.output.turbine_rate = Reactor_get_turbine_rate(r3)] :
              r3 \in {Reactor_update_temperatur(
                          [r EXCEPT !.core = Core_update(r.core,
                                                         r.input.fission_rate,
                                                         dt),
                                    !.turbine = Turbine_update(r.turbine,
                                                               r.input.turbine_rate,
                                                               dt)],
                          dt)}})

\* The four steps of Reactor::update in their order.  update_temperatur writes
\* only temperature and output.temperature, Core::update only core and
\* Turbine::update only turbine, so each step reads from r the fields that the
\* steps before it left alone.
Reactor_update(r, dt) ==
    Only({[r1 EXCEPT !.core = core,
                     !.turbine = turbine,
                     !.output.fuel_potential = r.fuel_potential,
                     !.output.fission_rate =
                         Reactor_get_fission_rate([core |-> core]),
                     !.output.load = r.input.load,
                     !.output.turbine_rate =
                         Reactor_get_turbine_rate([turbine |-> turbine])] :
              r1 \in {Reactor_update_temperatur(r, dt)},
              core \in {Core_update(r.core, r.input.fission_rate, dt)},
              turbine \in {Turbine_update(r.turbine, r.input.turbine_rate,
                                          dt)}})

Reactor_set_fission_rate(r, x) ==
    [r EXCEPT !.input.fission_rate = F32Clamp(x, Fx(0), Fx(100))]

Reactor_set_turbine_rate(r, x) ==
    [r EXCEPT !.input.turbine_rate = F32Clamp(x, Fx(0), Fx(100))]

Reactor_set_load(r, x) == [r EXCEPT !.load = F32Max(x, Fx(0))]

----------------------------------------------------------------------------
(* main.rs: the example controllers *)

Load_new(min, max, periode) ==
    [kind |-> "Load", tick |-> 0, min |-> min, max |-> max, periode |-> periode]

Load_update(c, output, input) ==
    LET t == (c.tick + 1) % c.periode
    IN  [controller |-> [c EXCEPT !.tick = t],
         input |-> IF t < c.periode \div 2
                   THEN Input_set_turbine_rate(input, c.max)
                   ELSE Input_set_turbine_rate(input, c.min)]

Mesurements_with_capacity ==
    [kind |-> "Mesurements", temperature |-> <<>>, fission |-> <<>>,
     fission_target |-> <<>>, fission_optimal |-> <<>>, turbine |-> <<>>,
     turbine_target |-> <<>>]

\* a / b in f32 for a >= 0 and b >= 0: a zero divisor gives NaN or +inf
F32Div(a, b) ==
    IF b = 0
    THEN [class |-> IF a = 0 THEN "NaN" ELSE "inf", v |-> 0]
    ELSE [class |-> "finite", v |-> F32Quot(a, b)]

Mesurements_update(c, output, input) ==
    [controller |->
        [c EXCEPT
            !.temperature = Append(@, output.temperature),
            !.fission = Append(@, output.fission_rate),
            !.fission_target = Append(@, input.fission_rate),
            !.fission_optimal =
                Append(@, F32Div(F32Mul(input.turbine_rate, Fx(75)),
                                 output.fuel_potential)),
            !.turbine = Append(@, output.turbine_rate),
            !.turbine_target = Append(@, input.turbine_rate)],
     input |-> input]

\* the gains are only stored, never read by update
SimpleController_new(kp, ki, kd) ==
    [kind |-> "SimpleController",
     a0 |-> F32Add(F32Add(kp, ki), kd),
     a1 |-> F32Sub(-kp, F32Mul(Fx(2), kd)),
     a2 |-> kd, prev_error |-> 0, prev_prev_error |-> 0, output |-> 0,
     estimated_temperature |-> 0]

SimpleController_update(c, output, input) ==
    [controller |-> c,
     input |-> IF output.temperature > Fx(5000)
               THEN Input_set_fission_rate(input, Fx(0))
               ELSE Input_set_fission_rate(input, Fx(100))]

(* controller.rs: the Controller implementations *)

Unit == [kind |-> "Unit"]

Tuple(members) == [kind |-> "Tuple", members |-> members]

RefMut(c) == [kind |-> "RefMut", target |-> c]

\* an empty controller that hands back a fresh Input
Unit_update_resets(c, output, input) == [controller |-> c, input |-> Input_new]

Unit_update(c, output, input) == [controller |-> c, input |-> input]

RECURSIVE Controller_update(_, _, _)

RECURSIVE Tuple_update(_, _, _)

\* a tuple whose members all start from the Input as it was before the tick
Tuple_update_simultaneous(members, output, input) ==
    IF members = <<>>
    THEN [members |-> <<>>, input |-> input]
    ELSE LET first == Controller_update(Head(members), output, input)
             rest == Tuple_update(Tail(members), output, input)
         IN  [members |-> <<first.controller>> \o rest.members,
              input |-> IF Tail(members) = <<>> THEN first.input ELSE rest.input]

\* impl_controller_tupple: self.0.update(output, input); self.1.update(...); ...
Tuple_update(members, output, input) ==
    IF members = <<>>
    THEN [members |-> <<>>, input |-> input]
    ELSE LET first == Controller_update(Head(members), output, input)
             rest == Tuple_update(Tail(members), output, first.input)
         IN  [members |-> <<first.controller>> \o rest.members,
              input |-> rest.input]

\* impl Controller for &mut C: (*self).update(output, input)
RefMut_update(c, output, input) ==
    LET r == Controller_update(c.target, output, input)
    IN  [controller |-> RefMut(r.controller), input |-> r.input]

\* Controller::update, dispatched on the implementing type
Controller_update(c, output, input) ==
    CASE c.kind = "Unit" -> Unit_update(c, output, input)
      [] c.kind = "Tuple" ->
            LET r == Tuple_update(c.members, output, input)
            IN  [controller |-> Tuple(r.members), input |-> r.input]
      [] c.kind = "RefMut" -> RefMut_update(c, output, input)
      [] c.kind = "Load" -> Load_update(c, output, input)
      [] c.kind = "Mesurements" -> Mesurements_update(c, output, input)
      [] c.kind = "SimpleController" -> SimpleController_update(c, output, input)

----------------------------------------------------------------------------
(* Bounds and input sets *)

MaxUpdates == 3

MaxSecs == 1

\* setter arguments of Spec: inside the range, above it
RateArgs == {60, 130}

LoadArgs == {130}

\* setter arguments of SpecSetters
SetterArgs == {-20, 0, 10, 25, 60, 100, 130}

\* time deltas of Spec: a no-op tick, half a second, a very large step
DtSet == {Dt(0, 1), Dt(1, 2), Dt(16, 1)}

\* main.rs: Reactor::new(fuel_potential, 4000.0) for the swept fuel potentials
MainFuelPotential == 160

MainPowerMax == 4000

SweepFuelPotentials == {80, MainFuelPotential, 240, 320}

TickRate == 60

TickDt == Dt(1, TickRate)

NoUpdate(r) == [dt |-> Dt(0, 1), before |-> r, added |-> 0]

NoSet == [setter |-> "none", x |-> 0]

NoControls(r, c) == [controller |-> c, input |-> r.input]

Started(secs, r, c) == [duration_secs |-> secs, reactor |-> r, controller |-> c]

\* no parallel sweep is running
NoSims == <<>>

----------------------------------------------------------------------------
(* The reactor's API driven by an arbitrary caller *)

InitApi ==
    /\ reactor = Reactor_new(Fx(MainFuelPotential), Fx(MainPowerMax))
    /\ controller = Unit
    /\ ticks = 0
    /\ tick = 0
    /\ pc = "api"
    /\ updates = 0
    /\ ctrlUpdates = 0
    /\ lastUpdate = NoUpdate(reactor)
    /\ lastSet = NoSet
    /\ lastControls = NoControls(reactor, controller)
    /\ start = Started(0, reactor, controller)
    /\ sims = NoSims

\* reactor.get_input_mut().set_fission_rate(x)
SetFissionRate(x) ==
    /\ pc = "api"
    /\ reactor' = [reactor EXCEPT !.input = Input_set_fission_rate(@, Fx(x))]
    /\ lastSet' = [setter |-> "Input::set_fission_rate", x |-> x]
    /\ UNCHANGED <<sims, controller, ticks, tick, pc, updates, ctrlUpdates,
                   lastUpdate, lastControls, start>>

SetTurbineRate(x) ==
    /\ pc = "api"
    /\ reactor' = [reactor EXCEPT !.input = Input_set_turbine_rate(@, Fx(x))]
    /\ lastSet' = [setter |-> "Input::set_turbine_rate", x |-> x]
    /\ UNCHANGED <<sims, controller, ticks, tick, pc, updates, ctrlUpdates,
                   lastUpdate, lastControls, start>>

SetLoad(x) ==
    /\ pc = "api"
    /\ reactor' = [reactor EXCEPT !.input = Input_set_load(@, Fx(x))]
    /\ lastSet' = [setter |-> "Input::set_load", x |-> x]
    /\ UNCHANGED <<sims, controller, ticks, tick, pc, updates, ctrlUpdates,
                   lastUpdate, lastControls, start>>

ReactorSetFissionRate(x) ==
    /\ pc = "api"
    /\ reactor' = Reactor_set_fission_rate(reactor, Fx(x))
    /\ lastSet' = [setter |-> "Reactor::set_fission_rate", x |-> x]
    /\ UNCHANGED <<sims, controller, ticks, tick, pc, updates, ctrlUpdates,
                   lastUpdate, lastControls, start>>

ReactorSetTurbineRate(x) ==
    /\ pc = "api"
    /\ reactor' = Reactor_set_turbine_rate(reactor, Fx(x))
    /\ lastSet' = [setter |-> "Reactor::set_turbine_rate", x |-> x]
    /\ UNCHANGED <<sims, controller, ticks, tick, pc, updates, ctrlUpdates,
                   lastUpdate, lastControls, start>>

ReactorSetLoad(x) ==
    /\ pc = "api"
    /\ reactor' = Reactor_set_load(reactor, Fx(x))
    /\ lastSet' = [setter |-> "Reactor::set_load", x |-> x]
    /\ UNCHANGED <<sims, controller, ticks, tick, pc, updates, ctrlUpdates,
                   lastUpdate, lastControls, start>>

\* reactor.update(dt), with what the call did recorded in lastUpdate
DoUpdate(dt) ==
    /\ reactor' = Reactor_update(reactor, dt)
    /\ updates' = updates + 1
    /\ lastUpdate' = [dt |-> dt, before |-> reactor,
                      added |-> TemperaturAdded(reactor, dt)]

Update(dt) ==
    /\ pc = "api"
    /\ updates < MaxUpdates
    /\ DoUpdate(dt)
    /\ UNCHANGED <<sims, controller, ticks, tick, pc, ctrlUpdates, lastSet,
                   lastControls, start>>

Next ==
    \/ \E x \in RateArgs : SetFissionRate(x)
    \/ \E x \in RateArgs : SetTurbineRate(x)
    \/ \E x \in LoadArgs : SetLoad(x)
    \/ \E dt \in DtSet : Update(dt)

Spec == InitApi /\ [][Next]_vars

\* the setters alone, Input's and the Reactor's own, over a wider argument set
NextSetters ==
    \/ \E x \in SetterArgs : SetFissionRate(x)
    \/ \E x \in SetterArgs : SetTurbineRate(x)
    \/ \E x \in SetterArgs : SetLoad(x)
    \/ \E x \in SetterArgs : ReactorSetFissionRate(x)
    \/ \E x \in SetterArgs : ReactorSetTurbineRate(x)
    \/ \E x \in SetterArgs : ReactorSetLoad(x)

SpecSetters == InitApi /\ [][NextSetters]_vars

\* a caller that always gives the core and the turbine the same rate
TwinArgs == {-20, 0, 10, 30, 60, 100, 130}

TwinDts == DtSet \cup {Dt(1, 4), Dt(1, 1), Dt(2, 1), TickDt}

\* set_fission_rate(x) and set_turbine_rate(x) with one and the same x
SetBothRates(x) ==
    /\ pc = "api"
    /\ reactor' = [reactor EXCEPT !.input =
                       Input_set_turbine_rate(
                           Input_set_fission_rate(@, Fx(x)), Fx(x))]
    /\ lastSet' = [setter |-> "Input::set_turbine_rate", x |-> x]
    /\ UNCHANGED <<sims, controller, ticks, tick, pc, updates, ctrlUpdates,
                   lastUpdate, lastControls, start>>

NextTwin ==
    \/ \E x \in TwinArgs : SetBothRates(x)
    \/ \E dt \in TwinDts : Update(dt)

SpecTwin == InitApi /\ [][NextTwin]_vars

----------------------------------------------------------------------------
(* main.rs: Simulation *)

Load60 == Load_new(Fx(0), Fx(100), 60 * 300)

Load8 == Load_new(Fx(0), Fx(100), 8)

Load6 == Load_new(Fx(20), Fx(150), 6)

\* SimpleController::new(0.2 / 60.0, 0.00 / 60.0, 0.00 / 60.0)
Simple ==
    SimpleController_new(F32Quot(F32Quot(Fx(2), Fx(10)), Fx(60)),
                         F32Quot(Fx(0), Fx(60)), F32Quot(Fx(0), Fx(60)))

Mes == Mesurements_with_capacity

\* the controllers handed to Simulation::new: the one main builds, the empty
\* one, and tuples of every supported arity, nested and behind &mut
ControllerConfigs ==
    {Unit,
     Tuple(<<Load60, Mes, Simple>>),
     Tuple(<<Load8>>),
     Tuple(<<Load8, Mes>>),
     Tuple(<<Mes, Load8>>),
     Tuple(<<Simple, Load6>>),
     Tuple(<<Tuple(<<Load8, Mes>>), Tuple(<<Simple>>), Unit>>),
     Tuple(<<Load8, Mes, Simple, Load6>>),
     Tuple(<<Mes, Load8, Mes, Simple, Mes>>),
     Tuple(<<Load6, Mes, Simple, Load8, Mes, Unit>>),
     RefMut(Tuple(<<Load6, RefMut(Mes)>>))}

\* the Input of the reactor handed to the driver: untouched, or preset
RunInputs ==
    {Input_new,
     Input_set_load(
         Input_set_turbine_rate(
             Input_set_fission_rate(Input_new, Fx(130)), Fx(60)), Fx(25))}

Simulation_new(duration_secs, r, c) ==
    [ticks |-> duration_secs * TickRate, reactor |-> r, controller |-> c]

\* the controller main builds, and the shorter ones
MainConfigs ==
    {Unit,
     Tuple(<<Load60, Mes, Simple>>),
     Tuple(<<Load8>>),
     Tuple(<<Simple, Load6>>)}

InitRunWith(configs, fps) ==
    \E secs \in 0..MaxSecs, fp \in fps,
       c \in configs, in \in RunInputs :
        LET sim == Simulation_new(
                       secs,
                       [Reactor_new(Fx(fp), Fx(MainPowerMax)) EXCEPT !.input = in],
                       c)
        IN  /\ reactor = sim.reactor
            /\ controller = sim.controller
            /\ ticks = sim.ticks
            /\ tick = 0
            /\ pc = "controls"
            /\ updates = 0
            /\ ctrlUpdates = 0
            /\ lastUpdate = NoUpdate(sim.reactor)
            /\ lastSet = NoSet
            /\ lastControls = NoControls(sim.reactor, sim.controller)
            /\ start = Started(secs, sim.reactor, sim.controller)
            /\ sims = NoSims

InitRun == InitRunWith(ControllerConfigs, SweepFuelPotentials)

InitRunMain == InitRunWith(MainConfigs, SweepFuelPotentials)

\* let (input, output) = self.reactor.controls();
\* self.controller.update(&output, input);
\* a loop over 0..=self.ticks
RunControls_inclusive ==
    /\ pc = "controls"
    /\ tick <= ticks
    /\ LET r == Controller_update(controller, reactor.output, reactor.input)
       IN  /\ controller' = r.controller
           /\ reactor' = [reactor EXCEPT !.input = r.input]
    /\ ctrlUpdates' = ctrlUpdates + 1
    /\ lastControls' = [controller |-> controller, input |-> reactor.input]
    /\ pc' = "update"
    /\ UNCHANGED <<sims, ticks, tick, updates, lastUpdate, lastSet, start>>

RunControls ==
    /\ pc = "controls"
    /\ tick < ticks
    /\ LET r == Controller_update(controller, reactor.output, reactor.input)
       IN  /\ controller' = r.controller
           /\ reactor' = [reactor EXCEPT !.input = r.input]
    /\ ctrlUpdates' = ctrlUpdates + 1
    /\ lastControls' = [controller |-> controller, input |-> reactor.input]
    /\ pc' = "update"
    /\ UNCHANGED <<sims, ticks, tick, updates, lastUpdate, lastSet, start>>

\* self.reactor.update(1.0 / 60.0); and the loop's next iteration
RunUpdate ==
    /\ pc = "update"
    /\ DoUpdate(TickDt)
    /\ tick' = tick + 1
    /\ pc' = "controls"
    /\ UNCHANGED <<sims, controller, ticks, ctrlUpdates, lastSet, lastControls, start>>

\* the loop is over: self.controller is returned
RunReturn ==
    /\ pc = "controls"
    /\ tick >= ticks
    /\ pc' = "done"
    /\ UNCHANGED <<sims, reactor, controller, ticks, tick, updates, ctrlUpdates,
                   lastUpdate, lastSet, lastControls, start>>

NextRun == RunControls \/ RunUpdate \/ RunReturn

SpecRun == InitRun /\ [][NextRun]_vars

\* a run is one thread that never blocks: it keeps stepping until it returns
SpecRunFair == InitRunMain /\ [][NextRun]_vars /\ WF_vars(NextRun)

----------------------------------------------------------------------------
(* Scenario 1: cold start, Input left at its defaults *)

Scenario1Ticks == 600

InitScenario1 ==
    /\ reactor = Reactor_new(Fx(MainFuelPotential), Fx(MainPowerMax))
    /\ controller = Unit
    /\ ticks = Scenario1Ticks
    /\ tick = 0
    /\ pc = "scenario"
    /\ updates = 0
    /\ ctrlUpdates = 0
    /\ lastUpdate = NoUpdate(reactor)
    /\ lastSet = NoSet
    /\ lastControls = NoControls(reactor, controller)
    /\ start = Started(0, reactor, controller)
    /\ sims = NoSims

\* one reactor.update(1.0 / 60.0) of a scenario
ScenarioUpdate ==
    /\ pc = "scenario"
    /\ updates < ticks
    /\ DoUpdate(TickDt)
    /\ UNCHANGED <<sims, controller, ticks, tick, pc, ctrlUpdates, lastSet,
                   lastControls, start>>

SpecScenario1 == InitScenario1 /\ [][ScenarioUpdate]_vars

(* Scenario 2: full fission, zero turbine.  Scenario 3: matched load. *)

Scenario2Ticks == 1200

Scenario3Ticks == 3000

\* a fresh scenario reactor whose Input is still to be set
InitSetup(n) ==
    /\ reactor = Reactor_new(Fx(MainFuelPotential), Fx(MainPowerMax))
    /\ controller = Unit
    /\ ticks = n
    /\ tick = 0
    /\ pc = "setup"
    /\ updates = 0
    /\ ctrlUpdates = 0
    /\ lastUpdate = NoUpdate(reactor)
    /\ lastSet = NoSet
    /\ lastControls = NoControls(reactor, controller)
    /\ start = Started(0, reactor, controller)
    /\ sims = NoSims

\* reactor.get_input_mut().set_fission_rate(x), once, before the updates
ScenarioSetFission(x) ==
    /\ pc = "setup"
    /\ reactor' = [reactor EXCEPT !.input = Input_set_fission_rate(@, Fx(x))]
    /\ lastSet' = [setter |-> "Input::set_fission_rate", x |-> x]
    /\ pc' = "scenario"
    /\ UNCHANGED <<sims, controller, ticks, tick, updates, ctrlUpdates, lastUpdate,
                   lastControls, start>>

\* set_fission_rate(x) and set_turbine_rate(y), once, before the updates
ScenarioSetBoth(x, y) ==
    /\ pc = "setup"
    /\ reactor' = [reactor EXCEPT !.input =
                       Input_set_turbine_rate(
                           Input_set_fission_rate(@, Fx(x)), Fx(y))]
    /\ lastSet' = [setter |-> "Input::set_turbine_rate", x |-> y]
    /\ pc' = "scenario"
    /\ UNCHANGED <<sims, controller, ticks, tick, updates, ctrlUpdates, lastUpdate,
                   lastControls, start>>

NextScenario2 == ScenarioSetFission(100) \/ ScenarioUpdate

SpecScenario2 == InitSetup(Scenario2Ticks) /\ [][NextScenario2]_vars

NextScenario3 == ScenarioSetBoth(50, 50) \/ ScenarioUpdate

SpecScenario3 == InitSetup(Scenario3Ticks) /\ [][NextScenario3]_vars

----------------------------------------------------------------------------
(* A caller that holds the Input rates and updates with one fixed time delta *)

HoldTicks == 730

\* the (fission rate, turbine rate) pairs a hold sets
HoldPairs == {<<10, 60>>, <<50, 50>>, <<60, 0>>, <<0, 10>>}

HoldDts == {Dt(1, 4), Dt(1, 2), Dt(16, 1), TickDt}

InitHold ==
    /\ reactor = Reactor_new(Fx(MainFuelPotential), Fx(MainPowerMax))
    /\ controller = Unit
    /\ ticks = HoldTicks
    /\ tick = 0
    /\ pc = "hold"
    /\ updates = 0
    /\ ctrlUpdates = 0
    /\ lastUpdate = NoUpdate(reactor)
    /\ lastSet = NoSet
    /\ lastControls = NoControls(reactor, controller)
    /\ start = Started(0, reactor, controller)
    /\ sims = NoSims

\* set_fission_rate(x) and set_turbine_rate(y): a hold begins, on a fresh
\* reactor or once the hold before it has had all its updates; start keeps
\* the reactor the hold began with and tick counts the hold's updates
HoldSet(x, y) ==
    /\ pc = "hold"
    /\ \/ lastSet = NoSet
       \/ tick = ticks /\ updates = ticks
    /\ reactor' = [reactor EXCEPT !.input =
                       Input_set_turbine_rate(
                           Input_set_fission_rate(@, Fx(x)), Fx(y))]
    /\ lastSet' = [setter |-> "Input::set_turbine_rate", x |-> y]
    /\ tick' = 0
    /\ start' = Started(0, reactor', controller)
    /\ UNCHANGED <<sims, controller, ticks, pc, updates, ctrlUpdates,
                   lastUpdate, lastControls>>

\* reactor.update(dt) with the time delta of the updates before it
HoldUpdate(dt) ==
    /\ pc = "hold"
    /\ lastSet # NoSet
    /\ tick < ticks
    /\ updates = 0 \/ dt = lastUpdate.dt
    /\ DoUpdate(dt)
    /\ tick' = tick + 1
    /\ UNCHANGED <<sims, controller, ticks, pc, ctrlUpdates, lastSet,
                   lastControls, start>>

NextHold ==
    \/ \E p \in HoldPairs : HoldSet(p[1], p[2])
    \/ \E dt \in HoldDts : HoldUpdate(dt)

SpecHold == InitHold /\ [][NextHold]_vars

----------------------------------------------------------------------------
(* main.rs: the sweep over fuel potentials, one Simulation per worker *)

ParSecs == 1

\* the controller tuple main builds for every run
MainController == Tuple(<<Load60, Mes, Simple>>)

\* the Simulation main's closure builds for one fuel potential, about to run
MainSimulation(fp) ==
    LET sim == Simulation_new(ParSecs, Reactor_new(Fx(fp), Fx(MainPowerMax)),
                              MainController)
    IN  [ticks |-> sim.ticks, reactor |-> sim.reactor,
         controller |-> sim.controller, tick |-> 0, pc |-> "controls"]

\* one step of Simulation::run on the Simulation it owns: the controller
\* update of an iteration, its reactor update, or the return after the loop
Simulation_step(sim) ==
    CASE sim.pc = "controls" /\ sim.tick < sim.ticks ->
            LET r == Controller_update(sim.controller, sim.reactor.output,
                                       sim.reactor.input)
            IN  [sim EXCEPT !.controller = r.controller,
                            !.reactor.input = r.input,
                            !.pc = "update"]
      [] sim.pc = "controls" /\ sim.tick >= sim.ticks ->
            [sim EXCEPT !.pc = "done"]
      [] sim.pc = "update" ->
            [sim EXCEPT !.reactor = Reactor_update(@, TickDt),
                        !.tick = @ + 1,
                        !.pc = "controls"]
      [] OTHER -> sim

\* two of the sweep's runs on two workers
InitPar ==
    /\ reactor = Reactor_new(Fx(MainFuelPotential), Fx(MainPowerMax))
    /\ controller = Unit
    /\ ticks = 0
    /\ tick = 0
    /\ pc = "sweep"
    /\ updates = 0
    /\ ctrlUpdates = 0
    /\ lastUpdate = NoUpdate(reactor)
    /\ lastSet = NoSet
    /\ lastControls = NoControls(reactor, controller)
    /\ start = Started(ParSecs, reactor, controller)
    /\ \E fp1, fp2 \in SweepFuelPotentials :
           /\ fp1 < fp2
           /\ sims = [fp \in {fp1, fp2} |-> MainSimulation(fp)]

\* workers that share one Output: the controller of every run is shown the
\* Output of the sweep's first reactor instead of its own
ParStep_shared_output(fp) ==
    /\ pc = "sweep"
    /\ sims[fp].pc # "done"
    /\ LET first == CHOOSE x \in DOMAIN sims : \A y \in DOMAIN sims : x <= y
           own == sims[fp].reactor.output
           seen == [sims[fp] EXCEPT !.reactor.output = sims[first].reactor.output]
       IN  sims' = [sims EXCEPT ![fp] =
                       IF @.pc = "controls"
                       THEN [Simulation_step(seen) EXCEPT !.reactor.output = own]
                       ELSE Simulation_step(@)]
    /\ UNCHANGED <<reactor, controller, ticks, tick, pc, updates, ctrlUpdates,
                   lastUpdate, lastSet, lastControls, start>>

\* the worker running the Simulation for fp takes its next step
ParStep(fp) ==
    /\ pc = "sweep"
    /\ sims[fp].pc # "done"
    /\ sims' = [sims EXCEPT ![fp] = Simulation_step(@)]
    /\ UNCHANGED <<reactor, controller, ticks, tick, pc, updates, ctrlUpdates,
                   lastUpdate, lastSet, lastControls, start>>

NextPar == \E fp \in DOMAIN sims : ParStep(fp)

SpecPar == InitPar /\ [][NextPar]_vars

----------------------------------------------------------------------------
(* Claims *)

InRange(x, lo, hi) == lo <= x /\ x <= hi

Min(a, b) == IF a < b THEN a ELSE b

Max(a, b) == IF a > b THEN a ELSE b

\* the real number m * 2^e, 0 <= m < 2^31
Real(m, e) == [m |-> m, e |-> e]

\* the real number that the f32 with bits x >= 0 is
RealOf(x) == Real(Mant(x), Expo(x))

\* a <= b for two such reals, compared exactly by their leading bits
RealLe(a, b) ==
    IF a.m = 0 THEN TRUE
    ELSE IF b.m = 0 THEN FALSE
    ELSE IF a.e + BitLen(a.m) # b.e + BitLen(b.m)
    THEN a.e + BitLen(a.m) < b.e + BitLen(b.m)
    ELSE a.m * 2 ^ (31 - BitLen(a.m)) <= b.m * 2 ^ (31 - BitLen(b.m))

\* 2^-k as an f32, 0 <= k <= 30
Pow2Neg(k) == F32Quot(Fx(1), Fx(2 ^ k))

\* C1: after any sequence of Input setter calls with arbitrary arguments each
\* of the three Input fields is in [0,100], and the field a setter was last
\* called on holds exactly min(max(x,0),100).
C1_InputClamped ==
    /\ InRange(reactor.input.fission_rate, Fx(0), Fx(100))
    /\ InRange(reactor.input.turbine_rate, Fx(0), Fx(100))
    /\ InRange(reactor.input.load, Fx(0), Fx(100))
    /\ lastSet.setter = "Input::set_fission_rate"
          => reactor.input.fission_rate = Fx(Min(Max(lastSet.x, 0), 100))
    /\ lastSet.setter = "Input::set_turbine_rate"
          => reactor.input.turbine_rate = Fx(Min(Max(lastSet.x, 0), 100))
    /\ lastSet.setter = "Input::set_load"
          => reactor.input.load = Fx(Min(Max(lastSet.x, 0), 100))

\* set_load(130) has just stored 100, after set_fission_rate stored an
\* in-range 25 and set_turbine_rate stored 60
C1_Witness ==
    /\ lastSet = [setter |-> "Input::set_load", x |-> 130]
    /\ reactor.input = [fission_rate |-> Fx(25), turbine_rate |-> Fx(60),
                        load |-> Fx(100)]

\* C2: at every tick boundary the reactor temperature and the temperature
\* reported in Output are within [0,10000].
C2_TemperatureBounded ==
    /\ InRange(reactor.temperature, Fx(0), Fx(10000))
    /\ InRange(reactor.output.temperature, Fx(0), Fx(10000))

\* an update whose rate-limited addition went past 10000 and was clamped
C2_Witness ==
    /\ updates > 0
    /\ lastUpdate.added > Fx(10000)
    /\ reactor.temperature = Fx(10000)
    /\ reactor.output.temperature = Fx(10000)

\* how far an update moved a target
Moved(before, after) == Abs(F32Sub(after, before))

\* C3 as stated: one Core.update or Turbine.update call moves the target by at
\* most 5*dt: |target_after - target_before| <= 5*dt, dt being the f32 passed
\* to update and the two sides compared as real numbers.
C3_Original ==
    updates > 0 =>
        /\ RealLe(RealOf(Moved(lastUpdate.before.core.target, reactor.core.target)),
                  Real(5 * Mant(lastUpdate.dt.v), Expo(lastUpdate.dt.v)))
        /\ RealLe(RealOf(Moved(lastUpdate.before.turbine.target,
                               reactor.turbine.target)),
                  Real(5 * Mant(lastUpdate.dt.v), Expo(lastUpdate.dt.v)))

\* C3 (amended): one Core.update or Turbine.update call moves the target by at
\* most the f32 product dt*5.0 plus the rounding of the f32 sum target +- dt*5.0,
\* which for a target in [0,100] is at most 2^-17:
\* |target_after - target_before| <= dt*5.0 + 2^-17.
C3_TargetRateLimit ==
    updates > 0 =>
        /\ F32Sub(Moved(lastUpdate.before.core.target, reactor.core.target),
                  MulDt(Fx(5), lastUpdate.dt)) <= Pow2Neg(17)
        /\ F32Sub(Moved(lastUpdate.before.turbine.target, reactor.turbine.target),
                  MulDt(Fx(5), lastUpdate.dt)) <= Pow2Neg(17)

\* an update by 1/60 in which the rate limit binds and the sum is rounded up:
\* the core target rose by more than 5*dt and is still short of the requested
\* rate
C3_Witness ==
    /\ updates > 0
    /\ lastUpdate.dt = TickDt
    /\ reactor.core.target > lastUpdate.before.core.target
    /\ reactor.core.target < lastUpdate.before.input.fission_rate
    /\ ~RealLe(RealOf(Moved(lastUpdate.before.core.target, reactor.core.target)),
               Real(5 * Mant(TickDt.v), Expo(TickDt.v)))

\* C4: in every reachable state core.value, core.target, turbine.value and
\* turbine.target are all in [0,100].
C4_CoreTurbineInRange ==
    /\ InRange(reactor.core.value, Fx(0), Fx(100))
    /\ InRange(reactor.core.target, Fx(0), Fx(100))
    /\ InRange(reactor.turbine.value, Fx(0), Fx(100))
    /\ InRange(reactor.turbine.target, Fx(0), Fx(100))

\* an update whose relaxation took core.value past 100 before the clamp
C4_Witness ==
    /\ updates > 0
    /\ reactor.core.value = Fx(100)
    /\ F32Add(lastUpdate.before.core.value,
              MulDt(F32Sub(reactor.core.target, lastUpdate.before.core.value),
                    lastUpdate.dt))
         > Fx(100)

\* the gap (2*core.value*fuel_potential - turbine.value*100) - temperature,
\* in f32
Gap(r) ==
    F32Sub(F32Sub(F32Mul(F32Mul(Fx(2), r.core.value), r.fuel_potential),
                  F32Mul(r.turbine.value, Fx(100))),
           r.temperature)

\* how far the last update moved the temperature
TemperatureChange == Abs(F32Sub(reactor.temperature, lastUpdate.before.temperature))

\* C5 as stated: the temperature change of an update is no larger in magnitude
\* than the pre-update gap and no larger than 1000*dt, dt being the f32 passed
\* to update, the gap the one update computes, and the sides compared as real
\* numbers.
C5_Original ==
    updates > 0 =>
        /\ RealLe(RealOf(TemperatureChange), RealOf(Abs(Gap(lastUpdate.before))))
        /\ RealLe(RealOf(TemperatureChange),
                  Real(125 * Mant(lastUpdate.dt.v), Expo(lastUpdate.dt.v) + 3))

\* C5 (amended): the temperature change of an update is no larger than the
\* pre-update gap and no larger than the f32 product 1000.0*dt, each plus the
\* rounding of the f32 sum temperature + step, which for a temperature in
\* [0,10000] is at most 2^-10.
C5_NoOvershoot ==
    updates > 0 =>
        /\ F32Sub(TemperatureChange, Abs(Gap(lastUpdate.before))) <= Pow2Neg(10)
        /\ F32Sub(TemperatureChange, MulDt(Fx(1000), lastUpdate.dt)) <= Pow2Neg(10)

\* an update by 1/60 that raised the temperature by more than 1000*dt, the
\* gap being wider than the step: the sum was rounded up
C5_Witness ==
    /\ updates > 0
    /\ lastUpdate.dt = TickDt
    /\ Gap(lastUpdate.before) > MulDt(Fx(1000), TickDt)
    /\ reactor.temperature > lastUpdate.before.temperature
    /\ ~RealLe(RealOf(TemperatureChange),
               Real(125 * Mant(TickDt.v), Expo(TickDt.v) + 3))

\* the temperature step of the contract, from given core and turbine values
TemperatureFrom(temperature, core_value, turbine_value, fuel_potential, dt) ==
    LET delta == F32Sub(F32Sub(F32Mul(F32Mul(Fx(2), core_value), fuel_potential),
                               F32Mul(turbine_value, Fx(100))),
                        temperature)
        rate == F32Mul(F32Mul(IF delta >= 0 THEN Fx(1) ELSE -Fx(1), Fx(1000)),
                       dt.v)
        step == Max(-Abs(delta), Min(rate, Abs(delta)))
    IN  Max(Fx(0), Min(F32Add(temperature, step), Fx(10000)))

\* C6: update(dt) computes the new temperature from the Core and Turbine
\* values as they were before the call, and the Output it leaves reports that
\* temperature together with the Core and Turbine values as advanced by the call.
C6_TemperatureLagsOneTick ==
    updates > 0 =>
        LET b == lastUpdate.before
        IN  /\ reactor.temperature =
                   TemperatureFrom(b.temperature, b.core.value, b.turbine.value,
                                   b.fuel_potential, lastUpdate.dt)
            /\ reactor.output.temperature = reactor.temperature
            /\ reactor.output.fission_rate = reactor.core.value
            /\ reactor.output.turbine_rate = reactor.turbine.value

\* an update that changed core.value and turbine.value, where the values it
\* produced would have given another temperature
C6_Witness ==
    /\ updates > 0
    /\ reactor.core.value # lastUpdate.before.core.value
    /\ reactor.turbine.value # lastUpdate.before.turbine.value
    /\ reactor.temperature #
           TemperatureFrom(lastUpdate.before.temperature, reactor.core.value,
                           reactor.turbine.value, reactor.fuel_potential,
                           lastUpdate.dt)

\* the atomic controllers of a controller tree, in tuple order
RECURSIVE Leaves(_)

RECURSIVE LeavesOfAll(_)

LeavesOfAll(members) ==
    IF members = <<>> THEN <<>>
    ELSE Leaves(Head(members)) \o LeavesOfAll(Tail(members))

Leaves(c) ==
    CASE c.kind = "Unit" -> <<>>
      [] c.kind = "Tuple" -> LeavesOfAll(c.members)
      [] c.kind = "RefMut" -> Leaves(c.target)
      [] OTHER -> <<c>>

\* the atomic controllers updated one after the other, each on the Input the
\* one before it left
RECURSIVE RunLeaves(_, _, _)

RunLeaves(leaves, output, input) ==
    IF leaves = <<>>
    THEN [leaves |-> <<>>, input |-> input]
    ELSE LET a == Controller_update(Head(leaves), output, input)
             rest == RunLeaves(Tail(leaves), output, a.input)
         IN  [leaves |-> <<a.controller>> \o rest.leaves, input |-> rest.input]

\* C7: one update of a composite controller (A, B) leaves the Input and the
\* states of A and B exactly as A.update followed by B.update on the same
\* Output and on the Input A left; for every tuple arity and nesting, the
\* atomic members each run once, in tuple order, on one threaded Input.
C7_CompositionOrder ==
    pc = "update" =>
        LET c == lastControls.controller
            in == lastControls.input
            out == reactor.output
            seq == RunLeaves(Leaves(c), out, in)
        IN  /\ Leaves(controller) = seq.leaves
            /\ reactor.input = seq.input
            /\ (c.kind = "Tuple" /\ Len(c.members) = 2) =>
                   LET a == Controller_update(c.members[1], out, in)
                       b == Controller_update(c.members[2], out, a.input)
                   IN  /\ controller = Tuple(<<a.controller, b.controller>>)
                       /\ reactor.input = b.input

\* the pair (Load, Mesurements) has run one tick: Load raised the turbine rate
\* from 0 to 100 and Mesurements, second, recorded the 100
C7_Witness ==
    /\ pc = "update"
    /\ controller.kind = "Tuple"
    /\ Len(controller.members) = 2
    /\ controller.members[1].kind = "Load"
    /\ controller.members[2].kind = "Mesurements"
    /\ lastControls.input.turbine_rate = Fx(0)
    /\ reactor.input.turbine_rate = Fx(100)
    /\ controller.members[2].turbine_target[ctrlUpdates] = Fx(100)

\* C8: a run driven by the empty controller () leaves all three Input fields
\* as they were before the run, after any number of ticks.
C8_EmptyControllerKeepsInput ==
    start.controller = Unit => reactor.input = start.reactor.input

\* a finished run of 60 or more ticks with (), started from a preset Input
C8_Witness ==
    /\ start.controller = Unit
    /\ pc = "done"
    /\ ctrlUpdates >= TickRate
    /\ start.reactor.input # Input_new
    /\ reactor.input = start.reactor.input

\* what the counters of a run are at each position of its loop
RunTrace ==
    /\ ticks = start.duration_secs * 60
    /\ pc = "controls" => ctrlUpdates = tick /\ updates = tick /\ tick <= ticks
    /\ pc = "update" => ctrlUpdates = tick + 1 /\ updates = tick /\ tick < ticks
    /\ pc = "done" => ctrlUpdates = ticks /\ updates = ticks /\ tick = ticks
    /\ updates > 0 => lastUpdate.dt = Dt(1, 60)

\* one step of a run is one controller update on the reactor's current Input
\* and Output, or the one reactor update that follows it, or the return
RunStep ==
    \/ /\ pc = "controls" /\ pc' = "update"
       /\ ctrlUpdates' = ctrlUpdates + 1 /\ updates' = updates
       /\ LET r == Controller_update(controller, reactor.output, reactor.input)
          IN  controller' = r.controller /\ reactor'.input = r.input
    \/ /\ pc = "update" /\ pc' = "controls"
       /\ updates' = updates + 1 /\ ctrlUpdates' = ctrlUpdates
       /\ controller' = controller
    \/ /\ pc = "controls" /\ pc' = "done" /\ updates = ticks
       /\ controller' = controller /\ reactor' = reactor
       /\ updates' = updates /\ ctrlUpdates' = ctrlUpdates

\* C9: Simulation.run terminates, and its trace is exactly
\* ticks = duration_in_seconds * 60 iterations, each one controller update
\* followed by one Reactor.update(1/60); the controller is returned only after
\* the last reactor update.
C9_RunTerminatesExactly ==
    /\ <>(pc = "done")
    /\ []RunTrace
    /\ [][RunStep]_vars

\* a run of 60 ticks with main's controller tuple has returned
C9_Witness ==
    /\ pc = "done"
    /\ start.duration_secs = 1
    /\ updates = 60
    /\ ctrlUpdates = 60
    /\ start.controller = Tuple(<<Load60, Mes, Simple>>)
    /\ Len(controller.members[2].temperature) = 60

\* C10: scenario 1: with the Input left at its all-zero defaults, after each
\* of the 600 Reactor.update(1/60) calls core.value, turbine.value and
\* temperature are all exactly 0.
C10_ColdStartStaysIdle ==
    /\ reactor.core.value = 0
    /\ reactor.turbine.value = 0
    /\ reactor.temperature = 0

\* the last of the scenario's updates has been made
C10_Witness ==
    /\ pc = "scenario"
    /\ updates = Scenario1Ticks
    /\ lastUpdate.dt = TickDt
    /\ reactor.input = Input_new
    /\ reactor.temperature = 0

\* C11 as stated: scenario 2: after 1200 Reactor.update(1/60) calls with the
\* fission target at 100 and the turbine target at 0, core.value is at least 99.
C11_Original ==
    (pc = "scenario" /\ updates = Scenario2Ticks) => reactor.core.value >= Fx(99)

\* C11 (amended): scenario 2: after 1200 Reactor.update(1/60) calls core.value
\* is at least 94 and still below 99: core.target takes all 1200 updates to
\* ramp to 100 and core.value trails it by about 5.
C11_CoreValueTrailsRamp ==
    (pc = "scenario" /\ updates = Scenario2Ticks) =>
        /\ reactor.core.value >= Fx(94)
        /\ reactor.core.value < Fx(99)

\* the 1200th update of scenario 2 has been made, with the fission target at
\* 100 since before the first and the turbine idle
C11_Witness ==
    /\ pc = "scenario"
    /\ updates = Scenario2Ticks
    /\ reactor.input.fission_rate = Fx(100)
    /\ reactor.input.turbine_rate = 0
    /\ reactor.turbine.value = 0
    /\ reactor.core.value > lastUpdate.before.core.value

\* C12: scenario 2: over the 1200 updates the temperature never decreases from
\* one tick to the next, is exactly 10000 before tick 1200, and once at 10000
\* stays there.
C12_TemperatureSaturates ==
    pc = "scenario" =>
        /\ updates > 0 => reactor.temperature >= lastUpdate.before.temperature
        /\ updates >= Scenario2Ticks - 1 => reactor.temperature = Fx(10000)
        /\ (updates > 0 /\ lastUpdate.before.temperature = Fx(10000))
               => reactor.temperature = Fx(10000)

\* the temperature rose from 0, reached 10000 and an update made from 10000,
\* whose addition went past it, left it at 10000
C12_Witness ==
    /\ pc = "scenario"
    /\ reactor.input.fission_rate = Fx(100)
    /\ updates > 0
    /\ updates < Scenario2Ticks
    /\ lastUpdate.before.temperature = Fx(10000)
    /\ lastUpdate.added > Fx(10000)
    /\ reactor.temperature = Fx(10000)

\* C13 as stated: scenario 3: with both targets held at 50, at the end of the
\* 3000 updates the temperature is strictly between 0 and 10000 and changes by
\* no more than a small epsilon (0.01) per tick.
C13_Original ==
    (pc = "scenario" /\ updates = Scenario3Ticks) =>
        /\ reactor.temperature > Fx(0)
        /\ reactor.temperature < Fx(10000)
        /\ Abs(F32Sub(reactor.temperature, lastUpdate.before.temperature))
               <= F32Quot(Fx(1), Fx(100))

\* C13 (amended): scenario 3: the temperature settles at exactly the 10000
\* ceiling (the equilibrium 2*50*160 - 50*100 = 11000 lies above it): from
\* tick 1000 to the end of the 3000 updates it is 10000 and does not change
\* from one tick to the next.
C13_TemperatureSettlesAtCeiling ==
    (pc = "scenario" /\ updates >= 1000) =>
        /\ reactor.temperature = Fx(10000)
        /\ lastUpdate.before.temperature = Fx(10000)
        /\ Gap(lastUpdate.before) > 0

\* the last update of scenario 3 has been made with both targets reached and
\* the core and the turbine running level with each other, short of 50
C13_Witness ==
    /\ pc = "scenario"
    /\ updates = Scenario3Ticks
    /\ reactor.core.target = Fx(50)
    /\ reactor.turbine.target = Fx(50)
    /\ reactor.core.value = reactor.turbine.value
    /\ reactor.core.value > Fx(49)
    /\ reactor.temperature = Fx(10000)

\* every fission_optimal sample of the recorders in a controller tree is the
\* quotient of a division by a non-zero fuel potential
RECURSIVE AllFinite(_)

AllFinite(samples) ==
    samples = <<>> \/ (Head(samples).class = "finite" /\ AllFinite(Tail(samples)))

RECURSIVE RecordersFinite(_)

RecordersFinite(leaves) ==
    \/ leaves = <<>>
    \/ /\ Head(leaves).kind = "Mesurements" => AllFinite(Head(leaves).fission_optimal)
       /\ RecordersFinite(Tail(leaves))

\* C14: on every tick of a run, the first included, the Output the controller
\* is given reports the positive fuel_potential the Reactor was constructed
\* with, so the measurement recorder never divides by zero.
C14_OutputReportsFuelPotential ==
    pc = "update" =>
        /\ reactor.fuel_potential > 0
        /\ reactor.output.fuel_potential = reactor.fuel_potential
        /\ RecordersFinite(Leaves(controller))

\* C15: right after a Reactor.update call every Output field equals what the
\* reactor's state gives: temperature, fuel potential, load, the actual fission
\* and turbine rates, and power = turbine.value*power_max/100.
C15_OutputFullyRecomputed ==
    (updates > 0 /\ reactor.input = lastUpdate.before.input) =>
        /\ reactor.output.temperature = reactor.temperature
        /\ reactor.output.fuel_potential = reactor.fuel_potential
        /\ reactor.output.load = reactor.input.load
        /\ reactor.output.fission_rate = Reactor_get_fission_rate(reactor)
        /\ reactor.output.turbine_rate = Reactor_get_turbine_rate(reactor)
        /\ reactor.output.power = Reactor_get_power(reactor)

\* the first n states a Simulation passes through when it runs alone, n >= 1
RECURSIVE Simulation_trace(_, _)

Simulation_trace(sim, n) ==
    IF n = 1 THEN <<sim>>
    ELSE LET h == n \div 2
             front == Simulation_trace(sim, h)
         IN  front \o Simulation_trace(Simulation_step(front[h]), n - h)

\* the number of steps a Simulation at this point of its run has taken
Position(sim) ==
    2 * sim.tick + (IF sim.pc = "update" THEN 1 ELSE 0)
                 + (IF sim.pc = "done" THEN 1 ELSE 0)

\* each run of the sweep executed alone, from construction to its return
RECURSIVE AloneTracesOf(_)

AloneTracesOf(fps) ==
    IF fps = {} THEN <<>>
    ELSE LET fp == CHOOSE x \in fps : \A y \in fps : x <= y
         IN  <<[fuel_potential |-> fp,
                trace |-> Simulation_trace(MainSimulation(fp),
                                           2 * ParSecs * TickRate + 2)]>>
               \o AloneTracesOf(fps \ {fp})

AloneTraces == AloneTracesOf(SweepFuelPotentials)

AloneTrace(fp) ==
    AloneTraces[CHOOSE i \in 1..Len(AloneTraces) :
                    AloneTraces[i].fuel_potential = fp].trace

\* C16: two runs of the sweep whose steps are interleaved in any order each
\* pass through exactly the states, and return exactly the controller, of the
\* same run executed alone; a step of one run leaves the other run untouched.
C16_RunsIndependent ==
    /\ [](\A fp \in DOMAIN sims :
             sims[fp] = AloneTrace(fp)[Position(sims[fp]) + 1])
    /\ [][\A fp \in DOMAIN sims :
             sims'[fp] # sims[fp] =>
                 \A g \in DOMAIN sims \ {fp} : sims'[g] = sims[g]]_vars

\* one run has returned its controller with all its samples recorded while
\* the other is in the middle of a tick, its reactor update still to come
C16_Witness ==
    /\ pc = "sweep"
    /\ \E fp, g \in DOMAIN sims :
           /\ sims[fp].pc = "done"
           /\ Len(sims[fp].controller.members[2].temperature) = ParSecs * TickRate
           /\ sims[g].pc = "update"
           /\ sims[g].tick > 0
           /\ sims[g].tick < sims[g].ticks
           /\ sims[g].reactor.temperature # sims[fp].reactor.temperature

\* C17: inside Reactor.update the temperature field never holds a value
\* outside [0,10000], not even between the rate-limited addition and the
\* final clamp of the temperature step.
C17_NoTransientExcursion ==
    updates > 0 => InRange(lastUpdate.added, Fx(0), Fx(10000))

\* C18: the value each of Reactor.set_fission_rate, Reactor.set_turbine_rate
\* and Reactor.set_load stores is in [0,100], whatever the argument.
C18_ReactorSettersClamp ==
    /\ lastSet.setter = "Reactor::set_fission_rate"
          => InRange(reactor.input.fission_rate, Fx(0), Fx(100))
    /\ lastSet.setter = "Reactor::set_turbine_rate"
          => InRange(reactor.input.turbine_rate, Fx(0), Fx(100))
    /\ lastSet.setter = "Reactor::set_load"
          => InRange(reactor.load, Fx(0), Fx(100))

\* C19: Core's heat-potential ceiling never takes effect: min(core.target, 320)
\* is core.target in every reachable state, so the Core and the Turbine, which
\* start equal and are given the same sequence of (new_target, dt) updates,
\* have identical target and value after every update.
C19_CeilingNeverBinds ==
    /\ F32Min(reactor.core.target, Fx(320)) = reactor.core.target
    /\ reactor.core.target = reactor.turbine.target
    /\ reactor.core.value = reactor.turbine.value

\* three updates on: both have ramped up, relaxed to a value above zero and
\* short of the target, and are now ramping down, still in step
C19_Witness ==
    /\ updates = MaxUpdates
    /\ reactor.core.target < lastUpdate.before.core.target
    /\ reactor.core.target > Fx(32)
    /\ reactor.core.value > 0
    /\ reactor.core.value < reactor.core.target
    /\ reactor.core = reactor.turbine

CeilDiv(a, b) == (a + b - 1) \div b

\* the integer that the f32 with bits x >= 0 is when it is one, else the
\* integer below it
Whole(x) == IF x < Fx(1) THEN 0 ELSE Mant(x) \div 2 ^ (-Expo(x))

\* ceil(|r - target0| / (5*dt)) for whole r and target0 and dt = n/d
HoldBound(r, target0, dt) ==
    CeilDiv(Abs(Whole(r) - Whole(target0)) * dt.d, 5 * dt.n)

\* after lies between before and r: a move toward r that does not pass it
Toward(before, after, r) ==
    IF before <= r THEN before <= after /\ after <= r
    ELSE r <= after /\ after <= before

\* one more update where dt or 5*dt is rounded, none where both are exact
Slack(dt) == IF \E k \in 0..8 : dt.d = 2 ^ k THEN 0 ELSE 1

\* C20 as stated: with the Input rate held at r and a fixed dt > 0 the target
\* moves toward r without passing it and is exactly r after at most
\* ceil(|r - target0| / (5*dt)) updates and on every later update.
C20_Original ==
    (pc = "hold" /\ tick > 0) =>
        LET b == lastUpdate.before
            dt == lastUpdate.dt
        IN  /\ Toward(b.core.target, reactor.core.target,
                      reactor.input.fission_rate)
            /\ Toward(b.turbine.target, reactor.turbine.target,
                      reactor.input.turbine_rate)
            /\ tick >= HoldBound(reactor.input.fission_rate,
                                 start.reactor.core.target, dt)
                   => reactor.core.target = reactor.input.fission_rate
            /\ tick >= HoldBound(reactor.input.turbine_rate,
                                 start.reactor.turbine.target, dt)
                   => reactor.turbine.target = reactor.input.turbine_rate

\* C20 (amended): with the Input rate held at r and a fixed dt > 0 the target
\* moves toward r without passing it and, once equal to r, stays equal; it is
\* exactly r after at most ceil(|r - target0| / (5*dt)) updates when dt and
\* 5*dt are computed without rounding, and after at most one update more when
\* they are rounded, as with dt = 1/60 and the rates 0, 10, 50 and 60.  Every
\* hold starts from a whole target0.
C20_TargetReachesHeldRate ==
    (pc = "hold" /\ tick > 0) =>
        LET b == lastUpdate.before
            dt == lastUpdate.dt
        IN  /\ start.reactor.core.target = Fx(Whole(start.reactor.core.target))
            /\ start.reactor.turbine.target = Fx(Whole(start.reactor.turbine.target))
            /\ Toward(b.core.target, reactor.core.target,
                      reactor.input.fission_rate)
            /\ Toward(b.turbine.target, reactor.turbine.target,
                      reactor.input.turbine_rate)
            /\ b.core.target = reactor.input.fission_rate
                   => reactor.core.target = reactor.input.fission_rate
            /\ b.turbine.target = reactor.input.turbine_rate
                   => reactor.turbine.target = reactor.input.turbine_rate
            /\ tick >= HoldBound(reactor.input.fission_rate,
                                 start.reactor.core.target, dt) + Slack(dt)
                   => reactor.core.target = reactor.input.fission_rate
            /\ tick >= HoldBound(reactor.input.turbine_rate,
                                 start.reactor.turbine.target, dt) + Slack(dt)
                   => reactor.turbine.target = reactor.input.turbine_rate

\* in a second hold, at dt = 1/60, core.target has come down from 50 to 10 and
\* arrived on update 481, one after ceil(40 / (5/60)) = 480
C20_Witness ==
    /\ pc = "hold"
    /\ updates > ticks
    /\ lastUpdate.dt = TickDt
    /\ start.reactor.core.target = Fx(50)
    /\ reactor.input.fission_rate = Fx(10)
    /\ tick = HoldBound(Fx(10), Fx(50), TickDt) + 1
    /\ HoldBound(Fx(10), Fx(50), TickDt) = 480
    /\ lastUpdate.before.core.target > Fx(10)
    /\ reactor.core.target = Fx(10)

====
